---- MODULE Spec2Model ----
(***************************************************************************)
(* A model of motor_videos.MotorVideos: the tag deduplicator               *)
(* (eliminar_etiquetas_similares), the country/tag counter                  *)
(* (contar_etiquetas_pais), the two reshapes (preparar_datos_a_entrenar,    *)
(* evolucion_tendencias) and the evaluator (evaluar_prediccion).            *)
(*                                                                         *)
(* A Python str is a sequence of one-character strings; a float that is a   *)
(* quotient of small integers is the pair <<numerator, denominator>>.       *)
(***************************************************************************)
EXTENDS Integers, Sequences, FiniteSets, TLC

VARIABLES
    op,             \* which method of MotorVideos the behaviour exercises
    fase,           \* the position of the call in progress
    porc,           \* config["porc_similitud"], <<num, den>>
    num_etiquetas,  \* config["num_etiquetas"]
    top_n,          \* config["top_n"]
    etiquetas,      \* eliminar_etiquetas_similares: the argument
    datos,          \* the caller's table handed to the method (the method's datos)
    datas_json,     \* contar_etiquetas_pais: the count table, a dict in insertion order
    fila_i,         \* contar_etiquetas_pais: the row i the counting loop is at
    tag_j,          \* contar_etiquetas_pais: the tag of that row the loop is at
    datas,          \* contar_etiquetas_pais: the sorted and truncated frame
    matriz,         \* the caller's wide matrix (evolucion_tendencias' datos)
    llamadas,       \* how often evolucion_tendencias was called on matriz
    argsort_visto,  \* what the sort returned for each array of totals it was given
    tendencias,     \* evaluar_prediccion: the observed trends
    prediccion,     \* evaluar_prediccion: the prediction
    result,         \* the value the last call returned (None before, and on error)
    primera         \* the caller's copy of the first result, before a second call

cfgVars == <<op, porc, num_etiquetas, top_n>>
dedupeVars == <<etiquetas>>
contarVars == <<datos, datas_json, fila_i, tag_j, datas>>
reshapeVars == <<matriz, llamadas, argsort_visto>>
evalVars == <<tendencias, prediccion>>

vars == <<cfgVars, fase, dedupeVars, contarVars, reshapeVars, evalVars, result, primera>>

None == "None"

\* No sort has run yet.
sin_argsort == [ks \in {} |-> <<>>]

\* ------------------------------------------------------------ bounds
MaxTagLen == 2
MaxEtiquetas == 3

\* ------------------------------------------------------------ strings
\* The characters of the raw tags handed to the deduplicator: an upper-case letter
\* (lower() changes it) and the apostrophe.
Chars == {"A", "'"}

Strings(n) == UNION {[1..k -> Chars] : k \in 0..n}

Listas(S, n) == UNION {[1..k -> S] : k \in 0..n}

Range(s) == {s[k] : k \in 1..Len(s)}

\* str.lower(), one character
lower_char(c) == IF c = "A" THEN "a" ELSE c

\* str.lower()
lower(s) == [k \in 1..Len(s) |-> lower_char(s[k])]

\* The configured thresholds, each a float the configuration file can hold exactly.
PorcValores == {<<1, 2>>, <<3, 4>>, <<1, 1>>}

\* ------------------------------------------------------------ difflib
\* SequenceMatcher.find_longest_match without junk: the blocks a[i:i+k] == b[j:j+k]
\* inside a[alo:ahi], b[blo:bhi] (0-based, half-open), k >= 1.
Blocks(a, b, alo, ahi, blo, bhi) ==
    {t \in (alo..(ahi - 1)) \X (blo..(bhi - 1)) \X (1..(ahi - alo)) :
        /\ t[1] + t[3] <= ahi
        /\ t[2] + t[3] <= bhi
        /\ \A d \in 0..(t[3] - 1) : a[t[1] + d + 1] = b[t[2] + d + 1]}

\* The longest block; of those the one starting earliest in a; of those the one
\* starting earliest in b.
find_longest_match(a, b, alo, ahi, blo, bhi) ==
    LET bs == Blocks(a, b, alo, ahi, blo, bhi)
    IN  IF bs = {} THEN <<alo, blo, 0>>
        ELSE CHOOSE t \in bs :
                \A u \in bs :
                    \/ u[3] < t[3]
                    \/ u[3] = t[3] /\ t[1] < u[1]
                    \/ u[3] = t[3] /\ t[1] = u[1] /\ t[2] <= u[2]

\* The sum of the sizes of get_matching_blocks(): the longest block, then the same
\* to its left and to its right.
RECURSIVE matches(_, _, _, _, _, _)
matches(a, b, alo, ahi, blo, bhi) ==
    LET m == find_longest_match(a, b, alo, ahi, blo, bhi)
        i == m[1]
        j == m[2]
        k == m[3]
    IN  IF k = 0 THEN 0
        ELSE k
             + (IF alo < i /\ blo < j THEN matches(a, b, alo, i, blo, j) ELSE 0)
             + (IF i + k < ahi /\ j + k < bhi
                   THEN matches(a, b, i + k, ahi, j + k, bhi) ELSE 0)

\* SequenceMatcher(None, a, b).ratio() = 2.0 * matches / (len(a) + len(b)), and 1.0
\* when both are empty.
ratio(a, b) ==
    IF Len(a) + Len(b) = 0 THEN <<1, 1>>
    ELSE <<2 * matches(a, b, 0, Len(a), 0, Len(b)), Len(a) + Len(b)>>

\* x > y on quotients with positive denominators
Gt(x, y) == x[1] * y[2] > y[1] * x[2]

\* x >= y, the variant a slip in the comparison would give
Ge(x, y) == x[1] * y[2] >= y[1] * x[2]

\* ------------------------------------------------------------ dedupe
\* The inner scan with the comparison loosened to >=.
es_similar_ge(etiqueta, res, p) ==
    \E k \in 1..Len(res) : Ge(ratio(etiqueta, res[k]), p)

\* The inner scan leaving the loop after its first comparison.
es_similar_first(etiqueta, res, p) ==
    Len(res) >= 1 /\ Gt(ratio(etiqueta, res[1]), p)

\* The inner loop: some accepted tag has ratio > porc_similitud with the candidate.
es_similar(etiqueta, res, p) ==
    \E k \in 1..Len(res) : Gt(ratio(etiqueta, res[k]), p)

\* etiqueta = etiqueta.lower(); the value of etiqueta.replace("'", "") is dropped,
\* so the candidate keeps its apostrophes.
normalizar(etiqueta) == lower(etiqueta)

\* The scan comparing a candidate with the tag read just before it only.
RECURSIVE scan_last(_, _, _, _)
scan_last(ets, p, k, res) ==
    IF k > Len(ets) THEN res
    ELSE LET etiqueta == normalizar(ets[k])
             prev == IF k = 1 THEN <<>> ELSE <<normalizar(ets[k - 1])>>
         IN  scan_last(ets, p, k + 1,
                       IF es_similar(etiqueta, prev, p) THEN res
                       ELSE Append(res, etiqueta))

eliminar_last(ets, p) == scan_last(ets, p, 1, <<>>)

\* The outer loop from tag k on, res the accepted tags so far.
RECURSIVE scan(_, _, _, _)
scan(ets, p, k, res) ==
    IF k > Len(ets) THEN res
    ELSE LET etiqueta == normalizar(ets[k])
         IN  scan(ets, p, k + 1,
                  IF es_similar(etiqueta, res, p) THEN res
                  ELSE Append(res, etiqueta))

eliminar_etiquetas_similares(ets, p) == scan(ets, p, 1, <<>>)

\* ------------------------------------------------------------ SpecDedupe
InitDedupe ==
    /\ op = "eliminar"
    /\ fase = "inicio"
    /\ porc \in PorcValores
    /\ num_etiquetas = 0 /\ top_n = 0
    /\ etiquetas \in Listas(Strings(MaxTagLen), MaxEtiquetas)
    /\ datos = None /\ datas_json = None /\ fila_i = 0 /\ tag_j = 0 /\ datas = None
    /\ matriz = None /\ llamadas = 0 /\ argsort_visto = sin_argsort
    /\ tendencias = None /\ prediccion = None
    /\ result = None
    /\ primera = None

\* A call of eliminar_etiquetas_similares(etiquetas).
Eliminar ==
    /\ op = "eliminar"
    /\ fase = "inicio"
    /\ result' = eliminar_etiquetas_similares(etiquetas, porc)
    /\ fase' = "hecho"
    /\ UNCHANGED <<cfgVars, dedupeVars, contarVars, reshapeVars, evalVars, primera>>

\* The caller keeps the list it got (primera) and calls again with it; etiquetas
\* stays the argument of the first call.
EliminarOtraVez ==
    /\ op = "eliminar"
    /\ fase = "hecho"
    /\ primera' = result
    /\ result' = eliminar_etiquetas_similares(result, porc)
    /\ fase' = "repetido"
    /\ UNCHANGED <<cfgVars, dedupeVars, contarVars, reshapeVars, evalVars>>

NextDedupe == Eliminar \/ EliminarOtraVez

SpecDedupe == InitDedupe /\ [][NextDedupe]_vars

\* The elements of s at the positions ix, in the order of s.
Pick(s, ix) ==
    LET F[k \in 0..Len(s)] ==
            IF k = 0 THEN <<>>
            ELSE IF k \in ix THEN Append(F[k - 1], s[k]) ELSE F[k - 1]
    IN  F[Len(s)]

NoDuplicates(s) == \A i, j \in 1..Len(s) : s[i] = s[j] => i = j

Perms(n) == {f \in [1..n -> 1..n] : \A i, j \in 1..n : f[i] = f[j] => i = j}

\* C1: the returned list is the greedy first-seen-wins selection: there is a set of
\* input positions such that position k is in it exactly when no earlier position
\* of the set holds a tag whose ratio with tag k exceeds porc_similitud, and the
\* result is the normalized input at those positions in input order (a
\* subsequence); a non-empty input's first tag is always the first survivor.
C1_GreedyFirstSeen ==
    (op = "eliminar" /\ fase = "hecho") =>
        LET n == Len(etiquetas)
            norm == [k \in 1..n |-> normalizar(etiquetas[k])]
            Greedy(ix) ==
                \A k \in 1..n :
                    k \in ix <=>
                        ~ \E m \in ix : m < k /\ Gt(ratio(norm[k], norm[m]), porc)
        IN  /\ \E ix \in SUBSET (1..n) : Greedy(ix) /\ result = Pick(norm, ix)
            /\ n > 0 => (Len(result) > 0 /\ result[1] = norm[1])

\* C1's case: three tags of which one was absorbed and two survive, while another
\* ordering of the same three tags leaves a single survivor (the relation is not
\* transitive).
C1_Witness ==
    /\ op = "eliminar" /\ fase = "hecho"
    /\ Len(etiquetas) = 3
    /\ Len(result) = 2
    /\ \E f \in Perms(3) :
            Len(eliminar_etiquetas_similares([k \in 1..3 |-> etiquetas[f[k]]], porc)) = 1

\* C2: a second pass over the list a first pass returned, at the same threshold,
\* returns that list unchanged.
C2_Idempotent ==
    (op = "eliminar" /\ fase = "repetido") => result = primera

\* C2's case: the first pass absorbed a tag and left at least two survivors, and
\* the second pass has run.
C2_Witness ==
    /\ op = "eliminar" /\ fase = "repetido"
    /\ Len(primera) >= 2
    /\ Len(primera) < Len(etiquetas)

\* C3 as stated: at every configured threshold in (0,1], 1 included, the returned
\* list holds no string twice.
C3_NoDuplicatesAnyThreshold ==
    (op = "eliminar" /\ fase = "hecho") => NoDuplicates(result)

\* C3 amended: at every threshold strictly below 1 the returned list holds no
\* string twice.
C3_NoDuplicatesBelowOne ==
    (op = "eliminar" /\ fase = "hecho" /\ Gt(<<1, 1>>, porc)) => NoDuplicates(result)

\* C3's case: a threshold below 1 and an input that holds the same string at two
\* positions, with another survivor between them.
C3_Witness ==
    /\ op = "eliminar" /\ fase = "hecho"
    /\ Gt(<<1, 1>>, porc)
    /\ Len(result) = 2
    /\ Len(etiquetas) = 3
    /\ etiquetas[1] = etiquetas[3]
    /\ etiquetas[1] # etiquetas[2]

\* C12: every tag eliminar_etiquetas_similares returns is lower-case and holds no
\* apostrophe.
C12_TagsNormalized ==
    (op = "eliminar" /\ fase \in {"hecho", "repetido"}) =>
        \A k \in 1..Len(result) :
            /\ result[k] = lower(result[k])
            /\ "'" \notin Range(result[k])

\* ------------------------------------------------------------ contar_etiquetas_pais
MaxFilas == 2
MaxNumEtiquetas == 2

\* config["paises"], in configured order
paises == <<"US", "GB">>

\* The countries a row may carry: the configured ones and one that is not.
Countries == {"US", "GB", "ES"}

\* snapshot_date values, ISO dates in ascending (lexicographic) order
Fechas == <<"2024-06-25", "2024-06-30">>

\* The position of x in the sequence s of distinct elements
IndexOf(s, x) == CHOOSE k \in 1..Len(s) : s[k] = x

\* a < b on ISO date strings
FechaLt(a, b) == IndexOf(Fechas, a) < IndexOf(Fechas, b)

\* video_tags values: "a", "A, '", "', a", "a', a"
VideoTags ==
    { <<"a">>,
      <<"A", ",", " ", "'">>,
      <<"'", ",", " ", "a">>,
      <<"a", "'", ",", " ", "a">> }

\* x.split(", ") from position k on: cur is the piece being read, out the pieces cut
RECURSIVE split_from(_, _, _, _)
split_from(s, k, cur, out) ==
    IF k > Len(s) THEN Append(out, cur)
    ELSE IF s[k] = "," /\ k + 1 <= Len(s) /\ s[k + 1] = " "
         THEN split_from(s, k + 2, <<>>, Append(out, cur))
         ELSE split_from(s, k + 1, Append(cur, s[k]), out)

\* x.split(", ")
split(s) == split_from(s, 1, <<>>, <<>>)

RECURSIVE Sum(_, _)
Sum(f, S) ==
    IF S = {} THEN 0
    ELSE LET x == CHOOSE y \in S : TRUE IN f[x] + Sum(f, S \ {x})

Min(a, b) == IF a <= b THEN a ELSE b

\* The empty dict
dict_vacio == [claves |-> <<>>, valores |-> [t \in {} |-> 0]]

\* {"total": 0} and then every configured country at 0
nueva_entrada == [k \in {"total"} \cup Range(paises) |-> 0]

\* The counting step with the total raised for every country, configured or not.
contar_total_siempre(dj, tag, pais) ==
    LET dj1 == IF tag \in Range(dj.claves) THEN dj
               ELSE [claves |-> Append(dj.claves, tag),
                     valores |-> (tag :> nueva_entrada) @@ dj.valores]
        dj2 == IF pais \in Range(paises)
               THEN [dj1 EXCEPT !.valores[tag][pais] = @ + 1]
               ELSE dj1
    IN  [dj2 EXCEPT !.valores[tag]["total"] = @ + 1]

\* One pass of the inner loop body for an already lower-cased tag: create the entry
\* the first time the tag is seen, then count it if the country is configured.
contar(dj, tag, pais) ==
    LET dj1 == IF tag \in Range(dj.claves) THEN dj
               ELSE [claves |-> Append(dj.claves, tag),
                     valores |-> (tag :> nueva_entrada) @@ dj.valores]
    IN  IF pais \in Range(paises)
        THEN [dj1 EXCEPT !.valores[tag][pais] = @ + 1,
                         !.valores[tag]["total"] = @ + 1]
        ELSE dj1

\* The orderings of the sequence s of distinct elements
Orderings(s) ==
    {[k \in 1..Len(s) |-> s[f[k]]] : f \in Perms(Len(s))}

\* The sort with ascending left at its default.
sort_values_asc(s, total) ==
    {o \in Orderings(s) : \A a, b \in 1..Len(o) : a < b => total[o[a]] <= total[o[b]]}

\* sort_values(by=["total"], ascending=False) with the default kind, quicksort,
\* which is not a stable sort: every ordering by total descending is an outcome,
\* whatever the order of rows with equal totals.
sort_values(s, total) ==
    {o \in Orderings(s) : \A a, b \in 1..Len(o) : a < b => total[o[a]] >= total[o[b]]}

\* .head(n), n >= 0
head(s, n) == SubSeq(s, 1, Min(n, Len(s)))

\* The label built from the first and the last row's date, the sort left out.
periodo_sin_ordenar(filas) ==
    <<filas[1].snapshot_date, filas[Len(filas)].snapshot_date>>

\* fechas = unique snapshot dates, sorted; f"{fechas[0]} - {fechas[-1]}", the label
\* held as the pair of its two dates
periodo_de(filas) ==
    LET fechas == {filas[k].snapshot_date : k \in 1..Len(filas)}
    IN  << CHOOSE a \in fechas : \A b \in fechas : ~ FechaLt(b, a),
           CHOOSE a \in fechas : \A b \in fechas : ~ FechaLt(a, b) >>

\* temp, then the cross join with the period: one row per selected tag and
\* configured country
filas_salida(ds, dj, per) ==
    LET np == Len(paises)
    IN  [k \in 1..(Len(ds) * np) |->
            LET tag == ds[((k - 1) \div np) + 1]
                pais == paises[((k - 1) % np) + 1]
            IN  [periodo |-> per, etiquetas |-> tag, pais |-> pais,
                 frecuencias |-> dj.valores[tag][pais],
                 total |-> dj.valores[tag]["total"]]]

Filas ==
    [snapshot_date : Range(Fechas), country : Countries, video_tags : VideoTags]

InitContar ==
    /\ op = "contar"
    /\ fase = "inicio"
    /\ porc \in PorcValores
    /\ num_etiquetas \in 0..MaxNumEtiquetas
    /\ top_n = 0
    /\ etiquetas = None
    /\ datos \in [columnas : {<<"snapshot_date", "country", "video_tags">>},
                  filas : Listas(Filas, MaxFilas)]
    /\ datas_json = None /\ fila_i = 0 /\ tag_j = 0 /\ datas = None
    /\ matriz = None /\ llamadas = 0 /\ argsort_visto = sin_argsort
    /\ tendencias = None /\ prediccion = None
    /\ result = None
    /\ primera = None

\* Lines 114-116: the cleaned_tags column is added to the caller's table, and the
\* count table starts empty.
Limpiar ==
    /\ op = "contar" /\ fase = "inicio"
    /\ datos' = [columnas |-> Append(datos.columnas, "cleaned_tags"),
                 filas |-> [k \in 1..Len(datos.filas) |->
                    [snapshot_date |-> datos.filas[k].snapshot_date,
                     country |-> datos.filas[k].country,
                     video_tags |-> datos.filas[k].video_tags,
                     cleaned_tags |->
                        eliminar_etiquetas_similares(split(datos.filas[k].video_tags),
                                                     porc)]]]
    /\ datas_json' = dict_vacio
    /\ fila_i' = 1 /\ tag_j' = 1
    /\ fase' = "contando"
    /\ UNCHANGED <<cfgVars, dedupeVars, datas, reshapeVars, evalVars, result, primera>>

\* Lines 117-127, one tag of one row.
ContarEtiqueta ==
    /\ op = "contar" /\ fase = "contando"
    /\ fila_i <= Len(datos.filas)
    /\ LET row == datos.filas[fila_i]
       IN  /\ datas_json' = contar(datas_json, lower(row.cleaned_tags[tag_j]), row.country)
           /\ IF tag_j < Len(row.cleaned_tags)
              THEN fila_i' = fila_i /\ tag_j' = tag_j + 1
              ELSE fila_i' = fila_i + 1 /\ tag_j' = 1
    /\ UNCHANGED <<cfgVars, fase, dedupeVars, datos, datas, reshapeVars, evalVars,
                   result, primera>>

\* A frame taken to have every column.
tiene_total_siempre(dj) == TRUE

\* DataFrame.from_dict(datas_json).T: its columns are the keys of the inner dicts, so
\* it has the column "total" only when datas_json has an entry
tiene_total(dj) == dj.claves # <<>>

\* Lines 129-131 on a non-empty count table.
Ordenar ==
    /\ op = "contar" /\ fase = "contando"
    /\ fila_i > Len(datos.filas)
    /\ tiene_total(datas_json)
    /\ \E o \in sort_values(datas_json.claves,
                            [t \in Range(datas_json.claves) |->
                                datas_json.valores[t]["total"]]) :
            datas' = head(o, num_etiquetas)
    /\ fase' = "ordenado"
    /\ UNCHANGED <<cfgVars, dedupeVars, datos, datas_json, fila_i, tag_j, reshapeVars,
                   evalVars, result, primera>>

\* Lines 129-130 on an empty count table: the frame has no "total" column,
\* sort_values raises KeyError, which line 148 raises again.
OrdenarKeyError ==
    /\ op = "contar" /\ fase = "contando"
    /\ fila_i > Len(datos.filas)
    /\ ~ tiene_total(datas_json)
    /\ fase' = "error"
    /\ UNCHANGED <<cfgVars, dedupeVars, contarVars, reshapeVars, evalVars, result, primera>>

\* Lines 132-150.
Emitir ==
    /\ op = "contar" /\ fase = "ordenado"
    /\ result' = filas_salida(datas, datas_json, periodo_de(datos.filas))
    /\ fase' = "hecho"
    /\ UNCHANGED <<cfgVars, dedupeVars, contarVars, reshapeVars, evalVars, primera>>

NextContar == Limpiar \/ ContarEtiqueta \/ Ordenar \/ OrdenarKeyError \/ Emitir

SpecContar == InitContar /\ [][NextContar]_vars

\* The total the count table holds for tag t
Total(t) == datas_json.valores[t]["total"]

\* How often tag t occurs, lower-cased, among the cleaned tags of the rows of country p
Ocurrencias(t, p) ==
    LET posiciones ==
            UNION {{<<k, q>> : q \in 1..Len(datos.filas[k].cleaned_tags)} :
                   k \in 1..Len(datos.filas)}
    IN  Cardinality({kq \in posiciones :
            /\ datos.filas[kq[1]].country = p
            /\ lower(datos.filas[kq[1]].cleaned_tags[kq[2]]) = t})

\* C4: after any number of counting steps every tag of the count table has an entry
\* for every configured country and its total is the sum of its per-country counts;
\* once the top tags are selected, their totals sum to at most the sum over all tags.
C4_CountConservation ==
    (op = "contar" /\ fase \in {"contando", "ordenado", "hecho"}) =>
        /\ \A t \in Range(datas_json.claves) :
              /\ Range(paises) \subseteq DOMAIN datas_json.valores[t]
              /\ Total(t) = Sum(datas_json.valores[t], Range(paises))
        /\ fase \in {"ordenado", "hecho"} =>
              Sum([k \in 1..Len(datas) |-> Total(datas[k])], 1..Len(datas))
                 <= Sum([k \in 1..Len(datas_json.claves) |-> Total(datas_json.claves[k])],
                        1..Len(datas_json.claves))

\* C4's case: counting is under way, one tag was created by a row of a country that
\* is not configured (all its counts 0) and another tag has been counted.
C4_Witness ==
    /\ op = "contar" /\ fase = "contando"
    /\ \E t, u \in Range(datas_json.claves) : Total(t) = 0 /\ Total(u) >= 1

\* The selection both forms of C5 share: min(num_etiquetas, D) distinct tags of the
\* table, by total descending, none left out with a greater total than one taken.
TopByTotal ==
    /\ Len(datas) = Min(num_etiquetas, Len(datas_json.claves))
    /\ Range(datas) \subseteq Range(datas_json.claves)
    /\ NoDuplicates(datas)
    /\ \A a, b \in 1..Len(datas) : a < b => Total(datas[a]) >= Total(datas[b])
    /\ \A u \in Range(datas_json.claves) \ Range(datas) :
          \A k \in 1..Len(datas) : Total(u) <= Total(datas[k])

C6_EmittedRows ==
    (op = "contar" /\ fase = "hecho") =>
        LET np == Len(paises)
            D == Cardinality(UNION {
                    {lower(t) : t \in Range(eliminar_etiquetas_similares(
                                                split(datos.filas[k].video_tags), porc))} :
                    k \in 1..Len(datos.filas)})
            fechas == {datos.filas[k].snapshot_date : k \in 1..Len(datos.filas)}
        IN  /\ Len(result) = Min(num_etiquetas, D) * np
            /\ Len(datas) = Min(num_etiquetas, D)
            /\ \A k \in 1..Len(datas) : \A p \in 1..np :
                  LET r == result[(k - 1) * np + p]
                  IN  /\ r.etiquetas = datas[k]
                      /\ r.pais = paises[p]
                      /\ r.frecuencias = Ocurrencias(datas[k], paises[p])
                      /\ r.total = Sum([q \in 1..np |-> Ocurrencias(datas[k], paises[q])],
                                       1..np)
                      /\ r.periodo[1] \in fechas /\ r.periodo[2] \in fechas
                      /\ \A d \in fechas :
                            ~ FechaLt(d, r.periodo[1]) /\ ~ FechaLt(r.periodo[2], d)

\* C6's case: two rows, the later date first, three distinct tags of which two are
\* selected, so four rows are returned.
C6_Witness ==
    /\ op = "contar" /\ fase = "hecho"
    /\ Len(datos.filas) = 2
    /\ FechaLt(datos.filas[2].snapshot_date, datos.filas[1].snapshot_date)
    /\ Len(datas_json.claves) = 3
    /\ num_etiquetas = 2
    /\ Len(result) = 4
    /\ result[1].frecuencias >= 1

\* C15: contar_etiquetas_pais on a table without rows returns no table: the call is
\* before its sort or has ended in the error, result is still None, and once the
\* (empty) counting loop is over the only step the call can take is the KeyError.
C15_EmptyBatchRaises ==
    (op = "contar" /\ datos.filas = <<>>) =>
        /\ fase \in {"inicio", "contando", "error"}
        /\ result = None
        /\ fase = "contando" =>
              /\ ENABLED OrdenarKeyError
              /\ ~ ENABLED Ordenar
              /\ ~ ENABLED ContarEtiqueta

\* C15's case: a call on a table without rows that has ended in the error.
C15_Witness ==
    /\ op = "contar"
    /\ datos.filas = <<>>
    /\ "cleaned_tags" \in Range(datos.columnas)
    /\ datas_json = dict_vacio
    /\ fase = "error"
    /\ result = None

\* ------------------------------------------------------------ the reshapes
MaxLargo == 3
MaxFrec == 1
MaxTopN == 3
MaxLlamadas == 2

\* periodo labels in ascending (lexicographic) order
Periodos == <<"2024-06-17 - 2024-06-23", "2024-06-24 - 2024-06-30">>

\* a < b on periodo labels
PeriodoLt(a, b) == IndexOf(Periodos, a) < IndexOf(Periodos, b)

Tags == {"football", "games", "music"}

\* The tags of the long tables handed to preparar_datos_a_entrenar
TagsLargo == {"football", "music"}

\* Series.unique(): the distinct elements in first-appearance order
unique(s) == Pick(s, {k \in 1..Len(s) : \A m \in 1..(k - 1) : s[m] # s[k]})

RECURSIVE concat(_)
concat(ss) == IF ss = <<>> THEN <<>> ELSE Head(ss) \o concat(Tail(ss))

\* The rows left as concat stacked them.
sin_ordenar(ps) == ps

\* result.sort_values(by=["periodo"]) on one row per distinct period: ascending
sort_periodos(ps) ==
    CHOOSE o \in Orderings(ps) :
        \A a, b \in 1..Len(o) : a < b => PeriodoLt(o[a], o[b])

\* The periods taken in ascending order.
periodos_ascendentes(d) == sort_periodos(unique([k \in 1..Len(d) |-> d[k].periodo]))

\* datos.periodo.unique(): the periods in the order the rows first show them
periodos_unicos(d) == unique([k \in 1..Len(d) |-> d[k].periodo])

\* Lines 164-173: one row per period in first-appearance order, its columns the
\* tags of that period's input rows; concat unites the columns in first-appearance
\* order; the rows are sorted by period, the gaps filled with 0, the frame
\* transposed.
preparar_datos_a_entrenar(d) ==
    LET ps == periodos_unicos(d)
        temp(p) == LET sel == SelectSeq(d, LAMBDA r : r.periodo = p)
                   IN  [k \in 1..Len(sel) |-> sel[k].etiquetas]
        tags == unique(concat([k \in 1..Len(ps) |-> temp(ps[k])]))
        cols == sort_periodos(ps)
    IN  [index |-> tags,
         columns |-> cols,
         val |-> [tc \in Range(tags) \X Range(cols) |->
                    IF \E k \in 1..Len(d) : d[k].etiquetas = tc[1] /\ d[k].periodo = tc[2]
                    THEN (CHOOSE r \in Range(d) :
                             r.etiquetas = tc[1] /\ r.periodo = tc[2]).frecuencias
                    ELSE 0]]

\* resultado["total"] = resultado.sum(axis=1): the sum over every column the frame
\* has, put in the "total" column, which is added last when the frame has none
sumar_total(m) ==
    LET cols == IF "total" \in Range(m.columns) THEN m.columns
                ELSE Append(m.columns, "total")
    IN  [index |-> m.index,
         columns |-> cols,
         val |-> [tc \in Range(m.index) \X Range(cols) |->
                    IF tc[2] = "total"
                    THEN Sum([c \in Range(m.columns) |-> m.val[<<tc[1], c>>]],
                             Range(m.columns))
                    ELSE m.val[tc]]]

\* The cut that keeps the last column.
recorte_con_total(m, n) ==
    [index |-> head(m.index, n), columns |-> m.columns, val |-> m.val]

\* resultado.iloc[:top_n, :-1]: the first top_n rows, every column but the last
recorte(m, n) ==
    [index |-> head(m.index, n),
     columns |-> SubSeq(m.columns, 1, Len(m.columns) - 1),
     val |-> m.val]

\* Lines 195-201: for each column, one row per tag of the index
filas_largas(m) ==
    LET n == Len(m.index)
    IN  [k \in 1..(Len(m.columns) * n) |->
            LET c == m.columns[((k - 1) \div n) + 1]
                t == m.index[((k - 1) % n) + 1]
            IN  [periodo |-> c, etiquetas |-> t, frecuencias |-> m.val[<<t, c>>]]]

FilasLargo == [periodo : Range(Periodos), etiquetas : TagsLargo, frecuencias : 0..MaxFrec]

\* The long tables: each (periodo, etiquetas) pair at most once
TablasLargas ==
    {d \in Listas(FilasLargo, MaxLargo) :
        \A a, b \in 1..Len(d) :
            (d[a].periodo = d[b].periodo /\ d[a].etiquetas = d[b].etiquetas) => a = b}

Distintas(S, n) == {x \in Listas(S, n) : x # <<>> /\ NoDuplicates(x)}

\* Either a long table for preparar_datos_a_entrenar, whose matrix is then handed to
\* evolucion_tendencias, or a matrix handed to evolucion_tendencias directly, its
\* rows and columns in any order.
InitReshape ==
    /\ porc = <<1, 1>>
    /\ num_etiquetas = 0
    /\ top_n \in 0..MaxTopN
    /\ etiquetas = None
    /\ datas_json = None /\ fila_i = 0 /\ tag_j = 0 /\ datas = None
    /\ llamadas = 0 /\ argsort_visto = sin_argsort
    /\ tendencias = None /\ prediccion = None
    /\ result = None
    /\ primera = None
    /\ \/ /\ op = "preparar"
          /\ fase = "inicio"
          /\ datos \in TablasLargas
          /\ matriz = None
       \/ /\ op = "evolucion"
          /\ fase = "matriz"
          /\ datos = None
          /\ \E ix \in Distintas(Tags, Cardinality(Tags)) :
             \E cs \in Distintas(Range(Periodos), Len(Periodos)) :
             \E v \in [Range(ix) \X Range(cs) -> 0..MaxFrec] :
                matriz = [index |-> ix, columns |-> cs, val |-> v]

\* preparar_datos_a_entrenar(datos) on a non-empty table.
Preparar ==
    /\ op = "preparar" /\ fase = "inicio"
    /\ datos # <<>>
    /\ matriz' = preparar_datos_a_entrenar(datos)
    /\ result' = matriz'
    /\ fase' = "matriz"
    /\ UNCHANGED <<cfgVars, dedupeVars, contarVars, llamadas, argsort_visto, evalVars,
                   primera>>

\* preparar_datos_a_entrenar on an empty table: result stays the empty frame, which
\* has no "periodo" column, so sort_values raises KeyError (line 170), raised again
\* at line 177.
PrepararKeyError ==
    /\ op = "preparar" /\ fase = "inicio"
    /\ datos = <<>>
    /\ fase' = "error"
    /\ UNCHANGED <<cfgVars, dedupeVars, contarVars, reshapeVars, evalVars, result, primera>>

\* The array the sort of line 193 compares, in row order: each row's sum over the
\* period columns. From the second call on the frame has a total column, which
\* sum(axis=1) adds in, so the totals are these doubled and compare as these do.
claves_de_orden(m) ==
    LET pc == SelectSeq(m.columns, LAMBDA c : c # "total")
    IN  [k \in 1..Len(m.index) |->
            Sum([c \in Range(pc) |-> m.val[<<m.index[k], c>>]], Range(pc))]

\* The positions in s of the elements of its reordering o, and s reordered by
\* such positions
posiciones(s, o) == [k \in 1..Len(o) |-> IndexOf(s, o[k])]
reordenar(s, f) == [k \in 1..Len(s) |-> s[f[k]]]

\* evolucion_tendencias(matriz): resultado is the caller's frame itself, so the
\* total column and the sort (in place) reach the caller's matriz; the returned rows
\* come from the cut copy. The sort is one function of the array of totals: which
\* ordering of equal totals it returns is not fixed by the code, but it returns the
\* same positions whenever it is given an array that compares the same.
Evolucion ==
    /\ op \in {"preparar", "evolucion"}
    /\ fase \in {"matriz", "largo"}
    /\ llamadas < MaxLlamadas
    /\ LET m == sumar_total(matriz)
           ks == claves_de_orden(matriz)
       IN  \E o \in sort_values(m.index, [t \in Range(m.index) |-> m.val[<<t, "total">>]]) :
              /\ ks \in DOMAIN argsort_visto => o = reordenar(m.index, argsort_visto[ks])
              /\ argsort_visto' = (ks :> posiciones(m.index, o)) @@ argsort_visto
              /\ matriz' = [m EXCEPT !.index = o]
              /\ result' = filas_largas(recorte(matriz', top_n))
    /\ primera' = IF llamadas = 0 THEN result' ELSE primera
    /\ llamadas' = llamadas + 1
    /\ fase' = "largo"
    /\ UNCHANGED <<cfgVars, dedupeVars, contarVars, evalVars>>

NextReshape == Preparar \/ PrepararKeyError \/ Evolucion

SpecReshape == InitReshape /\ [][NextReshape]_vars

\* The periods and the tags of the long table datos
PeriodosDe(d) == {d[k].periodo : k \in 1..Len(d)}
EtiquetasDe(d) == {d[k].etiquetas : k \in 1..Len(d)}

\* The (periodo, etiquetas) pairs of its periods and tags the long table has no row for
Ausentes(d) ==
    {pt \in PeriodosDe(d) \X EtiquetasDe(d) :
        ~ \E k \in 1..Len(d) : d[k].periodo = pt[1] /\ d[k].etiquetas = pt[2]}

\* C7: the matrix preparar_datos_a_entrenar returns has the distinct input periods
\* as columns in ascending order, exactly the input's tags as rows, each once, and
\* in cell (tag, period) the frequency of the input row for that pair, or 0 when the
\* input has no such row.
C7_LongToWide ==
    (op = "preparar" /\ fase = "matriz") =>
        /\ Range(matriz.columns) = PeriodosDe(datos)
        /\ \A a, b \in 1..Len(matriz.columns) :
              a < b => PeriodoLt(matriz.columns[a], matriz.columns[b])
        /\ Range(matriz.index) = EtiquetasDe(datos)
        /\ NoDuplicates(matriz.index)
        /\ \A t \in EtiquetasDe(datos) : \A p \in PeriodosDe(datos) :
              /\ \A k \in 1..Len(datos) :
                    (datos[k].etiquetas = t /\ datos[k].periodo = p) =>
                        matriz.val[<<t, p>>] = datos[k].frecuencias
              /\ <<p, t>> \in Ausentes(datos) => matriz.val[<<t, p>>] = 0

\* C7's case: three input rows, the later period first, a tag that one period lacks,
\* and a non-zero frequency.
C7_Witness ==
    /\ op = "preparar" /\ fase = "matriz"
    /\ Len(datos) = 3
    /\ PeriodoLt(datos[3].periodo, datos[1].periodo)
    /\ Ausentes(datos) # {}
    /\ datos[3].frecuencias >= 1

\* What C8 says of one call: m the matrix as handed in, r the rows returned.
C8_Post(m, r, n) ==
    LET pc == SelectSeq(m.columns, LAMBDA c : c # "total")
        tot == [t \in Range(m.index) |->
                    Sum([c \in Range(pc) |-> m.val[<<t, c>>]], Range(pc))]
        k == Min(n, Len(m.index))
    IN  /\ Len(r) = Len(pc) * k
        /\ \E o \in Orderings(m.index) :
              /\ \A a, b \in 1..Len(o) : a < b => tot[o[a]] >= tot[o[b]]
              /\ \A c \in 1..Len(pc) : \A q \in 1..k :
                    r[(c - 1) * k + q] =
                        [periodo |-> pc[c], etiquetas |-> o[q],
                         frecuencias |-> m.val[<<o[q], pc[c]>>]]
        /\ \A q \in 1..Len(r) : r[q].periodo # "total"

\* C8: every call of evolucion_tendencias returns |periods| * min(top_n, |tags|)
\* rows: the period columns in the order the matrix had them, and within each
\* period the same first top_n tags of one ranking by total over the periods,
\* descending; no row carries the total.
C8_RankOnceEmitPerPeriod ==
    [][(op \in {"preparar", "evolucion"} /\ llamadas' = llamadas + 1) =>
            C8_Post(matriz, result', top_n)]_vars

\* C8's case: a matrix of three tags whose columns are not in ascending order, cut
\* to the two tags of greatest total, which differ in total.
C8_Witness ==
    /\ op = "evolucion" /\ fase = "largo" /\ llamadas = 1
    /\ Len(matriz.index) = 3
    /\ top_n = 2
    /\ Len(result) = 4
    /\ PeriodoLt(result[3].periodo, result[1].periodo)
    /\ matriz.val[<<matriz.index[1], "total">>] > matriz.val[<<matriz.index[2], "total">>]
    /\ matriz.val[<<matriz.index[2], "total">>] > matriz.val[<<matriz.index[3], "total">>]

\* C9 as stated: with top_n at least the number of distinct tags, the rows
\* evolucion_tendencias returns for the matrix of datos are the rows of datos.
C9_RoundTripExact ==
    (op = "preparar" /\ fase = "largo" /\ top_n >= Cardinality(EtiquetasDe(datos))) =>
        /\ Range(result) = Range(datos)
        /\ Len(result) = Len(datos)

\* C9 amended: they are the rows of datos and one row of frequency 0 for every
\* (period, tag) pair datos has no row for, each row once.
C9_RoundTripZeroFilled ==
    (op = "preparar" /\ fase = "largo" /\ top_n >= Cardinality(EtiquetasDe(datos))) =>
        /\ Range(result) =
              Range(datos) \cup
              {[periodo |-> pt[1], etiquetas |-> pt[2], frecuencias |-> 0] :
                  pt \in Ausentes(datos)}
        /\ Len(result) = Cardinality(PeriodosDe(datos)) * Cardinality(EtiquetasDe(datos))
        /\ NoDuplicates(result)

\* C9's case: a round trip of three rows over two periods in which a tag is absent
\* from a period.
C9_Witness ==
    /\ op = "preparar" /\ fase = "largo"
    /\ top_n >= Cardinality(EtiquetasDe(datos))
    /\ Len(datos) = 3
    /\ Cardinality(PeriodosDe(datos)) = 2
    /\ Ausentes(datos) # {}
    /\ \E k \in 1..Len(datos) : datos[k].frecuencias >= 1

\* The periods in which the long table d has a row for tag t, the row of d in which
\* period p first shows, and the row of d for tag t in period p
PeriodosCon(d, t) == {d[k].periodo : k \in {m \in 1..Len(d) : d[m].etiquetas = t}}
PrimeraFila(d, p) ==
    CHOOSE k \in 1..Len(d) :
        d[k].periodo = p /\ \A m \in 1..(k - 1) : d[m].periodo # p
FilaDe(d, t, p) == CHOOSE k \in 1..Len(d) : d[k].etiquetas = t /\ d[k].periodo = p

\* Tag t is met before tag u when the periods are gone through in ascending order,
\* the rows of a period in input order.
AntesAscendente(d, t, u) ==
    LET primero(x) == CHOOSE p \in PeriodosCon(d, x) :
                          \A q \in PeriodosCon(d, x) : ~ PeriodoLt(q, p)
        p == primero(t)
        q == primero(u)
    IN  PeriodoLt(p, q) \/ (p = q /\ FilaDe(d, t, p) < FilaDe(d, u, q))

\* Tag t is met before tag u when the periods are gone through in the order the
\* input rows first show them, the rows of a period in input order.
AntesEnEntrada(d, t, u) ==
    LET primero(x) == CHOOSE p \in PeriodosCon(d, x) :
                          \A q \in PeriodosCon(d, x) :
                              PrimeraFila(d, p) <= PrimeraFila(d, q)
        p == primero(t)
        q == primero(u)
    IN  \/ PrimeraFila(d, p) < PrimeraFila(d, q)
        \/ (p = q /\ FilaDe(d, t, p) < FilaDe(d, u, q))

\* C13 as stated: the rows of the matrix preparar_datos_a_entrenar returns are the
\* tags in the order they are first met when the periods are gone through in
\* ascending order, whatever the order of the periods in the input rows.
C13_RowOrderAscendingPeriods ==
    (op = "preparar" /\ fase = "matriz") =>
        \A a, b \in 1..Len(matriz.index) :
            a < b => AntesAscendente(datos, matriz.index[a], matriz.index[b])

\* C13 amended: the rows are the tags in the order they are first met when the
\* periods are gone through in the order the input rows first show them.
C13_RowOrderInputPeriods ==
    (op = "preparar" /\ fase = "matriz") =>
        \A a, b \in 1..Len(matriz.index) :
            a < b => AntesEnEntrada(datos, matriz.index[a], matriz.index[b])

\* C13's case: the later period comes first in the input with one tag, the earlier
\* period second with another tag, and the matrix has the later period's tag first.
C13_Witness ==
    /\ op = "preparar" /\ fase = "matriz"
    /\ Len(datos) = 2
    /\ PeriodoLt(datos[2].periodo, datos[1].periodo)
    /\ datos[1].etiquetas # datos[2].etiquetas
    /\ matriz.index = <<datos[1].etiquetas, datos[2].etiquetas>>
    /\ matriz.columns = <<datos[2].periodo, datos[1].periodo>>

\* C14: a call of evolucion_tendencias leaves the caller's matrix with the columns
\* and the row order it had, and a call of contar_etiquetas_pais leaves the caller's
\* table with the columns it had.
C14_ArgumentsUntouched ==
    [][/\ (op \in {"preparar", "evolucion"} /\ llamadas' = llamadas + 1) =>
            /\ matriz'.columns = matriz.columns
            /\ matriz'.index = matriz.index
       /\ op = "contar" => datos'.columnas = datos.columnas]_vars

MaxTendencias == 2
MaxPrediccion == 3

\* Lines 221-223: the entries of prediccion's etiquetas that occur in tendencias'
contar_aciertos(tend, pred) ==
    Cardinality({k \in 1..Len(pred) :
        \E q \in 1..Len(tend) : tend[q].etiquetas = pred[k].etiquetas})

InitEvaluar ==
    /\ op = "evaluar"
    /\ fase = "inicio"
    /\ porc = <<1, 1>>
    /\ num_etiquetas = 0 /\ top_n = 0
    /\ etiquetas = None
    /\ datos = None /\ datas_json = None /\ fila_i = 0 /\ tag_j = 0 /\ datas = None
    /\ matriz = None /\ llamadas = 0 /\ argsort_visto = sin_argsort
    /\ tendencias \in Listas([periodo : Range(Periodos), etiquetas : Tags], MaxTendencias)
    /\ prediccion \in Listas([etiquetas : Tags], MaxPrediccion)
    /\ result = None
    /\ primera = None

\* evaluar_prediccion(tendencias, prediccion) with tendencias not empty: the period
\* of its first row and count / len(tendencias.etiquetas)
Evaluar ==
    /\ op = "evaluar" /\ fase = "inicio"
    /\ tendencias # <<>>
    /\ result' = [periodo |-> tendencias[1].periodo,
                  evaluacion |-> <<contar_aciertos(tendencias, prediccion), Len(tendencias)>>]
    /\ fase' = "hecho"
    /\ UNCHANGED <<cfgVars, dedupeVars, contarVars, reshapeVars, evalVars, primera>>

\* With tendencias empty, tendencias.iloc[0] raises IndexError (line 224), raised
\* again at line 229.
EvaluarIndexError ==
    /\ op = "evaluar" /\ fase = "inicio"
    /\ tendencias = <<>>
    /\ fase' = "error"
    /\ UNCHANGED <<cfgVars, dedupeVars, contarVars, reshapeVars, evalVars, result, primera>>

NextEvaluar == Evaluar \/ EvaluarIndexError

SpecEvaluar == InitEvaluar /\ [][NextEvaluar]_vars

\* C10: for every non-empty tendencias and every prediccion the returned score lies
\* in [0,1], and the returned period is that of tendencias' first row.
C10_ScoreInUnitInterval ==
    (op = "evaluar" /\ fase = "hecho") =>
        /\ Ge(result.evaluacion, <<0, 1>>)
        /\ Ge(<<1, 1>>, result.evaluacion)
        /\ result.periodo = tendencias[1].periodo

====
